---- MODULE Spec2Model ----
(***************************************************************************)
(* A model of the Ethereum -> Neo4j ETL of src/eth/etl.py: the address     *)
(* registration operations, the graph writes, the checker tasks and the    *)
(* sync tasks, run by work_flow against a graph store that enforces the    *)
(* uniqueness constraints of create_db.                                    *)
(***************************************************************************)
EXTENDS Integers, Sequences, FiniteSets, TLC

\* ------------------------------------------------------------------ bounds
\* Highest block number of the modelled chain prefix (blocks 0..MaxBlock).
MaxBlock == 2
\* Number of injected failures (RPC/store errors, unexpected counts) per run.
MaxFaults == 1
\* Largest configured worker count (config["checker"]["blocks"]).
MaxCo == 2
\* Highest local height and safe-height the loops are run with on their own.
MaxHeight == 4

\* ------------------------------------------------------- program constants
\* work_flow: sync mode runs while local_height < latest - 1000.
SafetyMargin == 1000

\* -------------------------------------------------------------- the chain
\* What the RPC collaborator returns.  Block contents repeat with period 3:
\*   n % 3 = 0 : one plain transaction a -> b, receipt without logs
\*   n % 3 = 1 : one token transaction a -> b, one Transfer log a -> m,
\*               and one uncle mined by m
\*   n % 3 = 2 : a contract creation (to = None, creates c), then a plain
\*               transaction a -> c
Numbers == 0..MaxBlock
Addresses == {"m", "a", "b", "c"}
Bytecodes == {"erc20", "plain"}
None == "None"

TxKinds(n) ==
  CASE n % 3 = 0 -> <<"plain">>
    [] n % 3 = 1 -> <<"token">>
    [] OTHER     -> <<"create", "plain">>

LogsOf(kind) ==
  IF kind = "token"
    THEN << [log_index |-> 0, is_transfer |-> TRUE, from |-> "a", to |-> "m"] >>
    ELSE << >>

\* w3.eth.get_block(number, full_transactions=True)
get_block(n) ==
  [ number |-> n,
    miner |-> "m",
    uncles |-> IF n % 3 = 1 THEN <<"m">> ELSE << >>,
    transactions |->
      [ i \in 1..Len(TxKinds(n)) |->
          [ hash |-> <<n, i>>,
            from |-> "a",
            to |-> CASE TxKinds(n)[i] = "create" -> None
                     [] n % 3 = 2 -> "c"
                     [] OTHER -> "b",
            gasPrice |-> 2 + i,
            kind |-> TxKinds(n)[i] ] ] ]

\* w3.eth.get_uncle_by_block(number, uncle_idx): the uncle header.
get_uncle_by_block(n, uncle_idx) ==
  [ miner |-> get_block(n).uncles[uncle_idx], number |-> n - 1 ]

\* w3.eth.get_transaction_receipt(hash)
get_transaction_receipt(tx) ==
  [ logs |-> LogsOf(tx.kind),
    gasUsed |-> CASE tx.kind = "plain" -> 3 [] tx.kind = "token" -> 5 [] OTHER -> 7,
    contractAddress |-> IF tx.to = None THEN "c" ELSE None ]

\* reward_calculator.get_const_reward(number): the block subsidy of the era
\* of the block number (one era for the modelled prefix), in units of 1/32
\* of the smallest share.
get_const_reward(number) == 160

\* reward_calculator.get_uncle_reward(number, uncle_number): the share of
\* the subsidy an uncle earns, by its depth below the including block.
get_uncle_reward(number, uncle_number) ==
  ((uncle_number + 8 - number) * get_const_reward(number)) \div 8

TxHashes == { <<n, i>> : n \in Numbers, i \in 1..2 }
TransferKeys == { <<h, 0>> : h \in TxHashes }

RECURSIVE SelectTransfers(_)
SelectTransfers(logs) ==
  IF logs = << >> THEN << >>
  ELSE (IF Head(logs).is_transfer
          THEN << [ transaction_hash |-> << >>, log_index |-> Head(logs).log_index,
                    from_address |-> Head(logs).from,
                    to_address |-> Head(logs).to ] >>
          ELSE << >>) \o SelectTransfers(Tail(logs))

\* enhance_block, lines 151 and 174-175: reward = get_const_reward(number),
\* then reward += receipt.gasUsed * transaction.gasPrice per transaction.
RECURSIVE RewardFrom(_, _, _)
RewardFrom(reward, transactions, i) ==
  IF i > Len(transactions) THEN reward
  ELSE RewardFrom(reward + get_transaction_receipt(transactions[i]).gasUsed
                             * transactions[i].gasPrice,
                  transactions, i + 1)

\* enhance_block: the uncles, the reward, and per transaction the receipt,
\* the created contract (when `to` is empty) and the decoded transfers.
enhance_block(block) ==
  [ number |-> block.number,
    miner |-> block.miner,
    uncle_blocks |-> [ k \in DOMAIN block.uncles |-> get_uncle_by_block(block.number, k) ],
    reward |-> RewardFrom(get_const_reward(block.number), block.transactions, 1),
    transactions |-> block.transactions,
    created_contracts |->
      [ i \in DOMAIN block.transactions |->
          get_transaction_receipt(block.transactions[i]).contractAddress ],
    transaction_receipt |->
      [ i \in DOMAIN block.transactions |->
          get_transaction_receipt(block.transactions[i]) ],
    transfers |->
      [ i \in DOMAIN block.transactions |->
          LET tfs == SelectTransfers(get_transaction_receipt(block.transactions[i]).logs)
          IN [ j \in DOMAIN tfs |->
                 [ tfs[j] EXCEPT !.transaction_hash = block.transactions[i].hash ] ] ] ]

EnhancedBlock(n) == enhance_block(get_block(n))

\* ensure_block_Addresses: the registration calls of one block, in order.
RECURSIVE TransferEnsures(_)
TransferEnsures(tfs) ==
  IF tfs = << >> THEN << >>
  ELSE << [op |-> "Unknown", addr |-> Head(tfs).from_address],
          [op |-> "Unknown", addr |-> Head(tfs).to_address] >>
       \o TransferEnsures(Tail(tfs))

RECURSIVE TxEnsures(_, _)
TxEnsures(block, i) ==
  IF i > Len(block.transactions) THEN << >>
  ELSE LET tx == block.transactions[i]
           own == IF tx.to # None
                    THEN << [op |-> "EOA", addr |-> tx.from],
                            IF Len(block.transaction_receipt[i].logs) > 0
                              THEN [op |-> "Contract", addr |-> tx.to]
                              ELSE [op |-> "Unknown", addr |-> tx.to] >>
                    ELSE << [op |-> "EOA", addr |-> tx.from],
                            [op |-> "Contract", addr |-> block.created_contracts[i]] >>
       IN own \o TransferEnsures(block.transfers[i]) \o TxEnsures(block, i + 1)

ensure_block_Addresses(block) ==
  << [op |-> "EOA", addr |-> block.miner] >>
  \o [ k \in DOMAIN block.uncle_blocks |->
         [op |-> "EOA", addr |-> block.uncle_blocks[k].miner] ]
  \o TxEnsures(block, 1)

\* ------------------------------------------------ the token transfer decoder
\* ethereumetl/service/token_transfer_extractor.py.  A str is the sequence of
\* its characters; a topic is a str or a HexBytes value (kept as the text
\* .hex() returns: "0x" and two lower-case digits per byte).
\* split_to_words: chunk_string(data_without_0x, 64).
WordLen == 64
\* word_to_address: len(param) >= 40 and param[-40:].
AddrLen == 40

TRANSFER_EVENT_TOPIC ==
  << "0", "x", "d", "d", "f", "2", "5", "2", "a", "d", "1", "b", "e", "2", "c", "8", "9", "b", "6", "9", "c", "2",
       "b", "0", "6", "8", "f", "c", "3", "7", "8", "d", "a", "a", "9", "5", "2", "b", "a", "7", "f", "1", "6", "3",
       "c", "4", "a", "1", "1", "6", "2", "8", "f", "5", "5", "a", "4", "d", "f", "5", "2", "3", "b", "3", "e", "f" >>

Digits == << "0", "1", "2", "3", "4", "5", "6", "7", "8", "9",
             "a", "b", "c", "d", "e", "f" >>
UpperDigits == << "0", "1", "2", "3", "4", "5", "6", "7", "8", "9",
                  "A", "B", "C", "D", "E", "F" >>

\* str.lower() on one character.
LowerChar(c) ==
  IF \E i \in 11..16 : UpperDigits[i] = c
    THEN Digits[CHOOSE i \in 11..16 : UpperDigits[i] = c]
    ELSE IF c = "X" THEN "x" ELSE c

IsHexChar(c) == \E i \in 1..16 : Digits[i] = LowerChar(c)
HexCharValue(c) == (CHOOSE i \in 1..16 : Digits[i] = LowerChar(c)) - 1

\* The slice string[from:to] (0-based, to exclusive, cut at the ends).
Slice(string, from, to) ==
  LET lo == IF from < 0 THEN 0 ELSE from
      hi == IF to > Len(string) THEN Len(string) ELSE to
  IN IF hi <= lo THEN << >> ELSE [ i \in 1..(hi - lo) |-> string[lo + i] ]

HasPrefix0x(string) ==
  Len(string) >= 2 /\ string[1] = "0" /\ LowerChar(string[2]) = "x"

\* utils.chunk_string(string, length): the consecutive pieces of `length`
\* characters, the last one shorter when the string does not divide.
RECURSIVE chunk_string(_, _)
chunk_string(string, length) ==
  IF Len(string) = 0 THEN << >>
  ELSE << Slice(string, 0, length) >>
       \o chunk_string(Slice(string, length, Len(string)), length)

\* utils.to_normalized_address of a str: lower-case, 0x-prefixed.
to_normalized_address(address) ==
  LET lower == [ i \in DOMAIN address |-> LowerChar(address[i]) ]
  IN IF HasPrefix0x(lower) THEN lower ELSE << "0", "x" >> \o lower

\* utils.hex_to_dec: int(hex_string, 16).  IsHexNumber: int() accepts the
\* text (no ValueError); hex_to_dec: the unsigned integer it encodes.
RECURSIVE HexValue(_)
HexValue(digits) ==
  IF digits = << >> THEN 0
  ELSE 16 * HexValue(Slice(digits, 0, Len(digits) - 1))
       + HexCharValue(digits[Len(digits)])

HexDigitsOf(hex_string) ==
  IF HasPrefix0x(hex_string) THEN Slice(hex_string, 2, Len(hex_string)) ELSE hex_string

IsHexNumber(hex_string) ==
  /\ Len(HexDigitsOf(hex_string)) > 0
  /\ \A i \in DOMAIN HexDigitsOf(hex_string) : IsHexChar(HexDigitsOf(hex_string)[i])

hex_to_dec(hex_string) == HexValue(HexDigitsOf(hex_string))

Str(value) == [ type |-> "str", value |-> value ]
HexBytes(hex) == [ type |-> "HexBytes", value |-> hex ]

\* split_to_words keeping the "0x" of the payload in the first word.
split_to_words_with_0x(data) ==
  IF Len(data) > 2
    THEN LET words == chunk_string(data, WordLen)
         IN [ i \in DOMAIN words |-> Str(<< "0", "x" >> \o words[i]) ]
    ELSE << >>

\* split_to_words: `if data and len(data) > 2` (an empty payload is falsy).
split_to_words(data) ==
  IF Len(data) > 2
    THEN LET data_without_0x == Slice(data, 2, Len(data))
             words == chunk_string(data_without_0x, WordLen)
         IN [ i \in DOMAIN words |-> Str(<< "0", "x" >> \o words[i]) ]
    ELSE << >>

\* word_to_address of a topic or payload word (a HexBytes is first turned
\* into its .hex() text).
word_to_address(param) ==
  LET text == param.value
  IN IF Len(text) >= AddrLen
       THEN to_normalized_address(
              << "0", "x" >> \o Slice(text, Len(text) - AddrLen, Len(text)))
       ELSE to_normalized_address(text)

\* _parse_transfer: no transfer (<< >>) or the one decoded transfer.
parse_transfer(topics, receipt_log) ==
  LET topics_with_data == topics \o split_to_words(receipt_log.data)
      transaction_hash == receipt_log.transactionHash.value
  IN IF Len(topics_with_data) # 4 THEN << >>
     ELSE IF ~IsHexNumber(topics_with_data[4].value) THEN << >>
     ELSE << [ token_address    |-> to_normalized_address(receipt_log.address),
               from_address     |-> word_to_address(topics_with_data[2]),
               to_address       |-> word_to_address(topics_with_data[3]),
               value_raw        |-> topics_with_data[4].value,
               value            |-> hex_to_dec(topics_with_data[4].value),
               transaction_hash |-> transaction_hash,
               log_index        |-> receipt_log.logIndex,
               block_number     |-> receipt_log.blockNumber ] >>

\* extract_transfer_from_log: receipt_log.get('topics') is None for a log
\* without the key.
extract_transfer_from_log(receipt_log) ==
  IF "topics" \notin DOMAIN receipt_log THEN << >>
  ELSE LET topics == receipt_log.topics IN
       IF Len(topics) < 1 THEN << >>
       ELSE IF topics[1].type = "str" /\ topics[1].value = TRANSFER_EVENT_TOPIC
         THEN parse_transfer(topics, receipt_log)
       ELSE IF topics[1].type = "HexBytes"
         THEN parse_transfer(topics, receipt_log)
       ELSE << >>

\* -------------------------------------------------------------- the store
\* The graph: per key the number of nodes (or edges) with that key.  An
\* Address node carries its labels, the classification flags (erc) and the
\* bytecode property.
EmptyDb ==
  [ addr     |-> [a \in Addresses |-> << >>],
    block    |-> [n \in Numbers |-> 0],
    reward   |-> [n \in Numbers |-> 0],
    uncle    |-> [n \in Numbers |-> 0],
    tx       |-> [h \in TxHashes |-> 0],
    txrel    |-> [h \in TxHashes |-> 0],
    anon     |-> 0,
    contains |-> [h \in TxHashes |-> 0],
    tf       |-> [k \in TransferKeys |-> 0],
    tfsend   |-> [k \in TransferKeys |-> 0],
    tfto     |-> [k \in TransferKeys |-> 0],
    tfcall   |-> [k \in TransferKeys |-> 0] ]

\* The constraints without addr_uq.
UniqueConstraintNoAddress(kind) == kind \in {"Block", "Transaction", "TokenTransfer"}

\* create_db: the uniqueness constraints of the store, by node kind.
UniqueConstraint(kind) == kind \in {"Block", "Address", "Transaction", "TokenTransfer"}

Ok(db) == [st |-> "ok", db |-> db]
Raise(st, db) == [st |-> st, db |-> db]

\* Cypher CREATE of a node under the constraints: a second node of a
\* constrained key is refused (ClientError), the transaction rolls back.
CreateRefused(kind, count) == UniqueConstraint(kind) /\ count >= 1

\* ------------------------------------------------- address registration
NewNode(labels, erc, bytecode) == [labels |-> labels, erc |-> erc, bytecode |-> bytecode]

\* A result row of the two-pattern read: a is the Address node, c the same
\* node when it carries `label` (OPTIONAL MATCH), else null (<< >>).
AddressRows(db, a, label) ==
  [ k \in DOMAIN db.addr[a] |->
      [ a |-> << db.addr[a][k] >>,
        c |-> IF label \in db.addr[a][k].labels THEN << db.addr[a][k] >> ELSE << >> ] ]

\* dict.get(key): None (<< >>) for a key the row does not hold.
Get(row, key) == IF key \in DOMAIN row THEN row[key] ELSE << >>

try_get_Contract(db, a) == AddressRows(db, a, "Contract")
try_get_EOA(db, a) == AddressRows(db, a, "EOA")
try_get_Addr(db, a) == [ k \in DOMAIN db.addr[a] |-> [ a |-> << db.addr[a][k] >> ] ]

\* MERGE of an Address node: matches a node carrying the pattern's label and
\* properties, else creates one (refused when the address key is taken).
Merge(db, a, node, matches) ==
  IF matches THEN Ok(db)
  ELSE IF CreateRefused("Address", Len(db.addr[a])) THEN Raise("ClientError", db)
  ELSE Ok([db EXCEPT !.addr[a] = Append(@, node)])

write_EOA(db, a) ==
  Merge(db, a, NewNode({"EOA"}, None, None),
        \E k \in DOMAIN db.addr[a] : "EOA" \in db.addr[a][k].labels)

set_EOA(db, a) ==
  Ok([db EXCEPT !.addr[a] =
        [ k \in DOMAIN @ |-> [ @[k] EXCEPT !.labels = @ \cup {"EOA"} ] ]])

write_Contract(db, a, bytecode) ==
  Merge(db, a, NewNode({"Contract"}, bytecode, bytecode),
        \E k \in DOMAIN db.addr[a] :
           /\ "Contract" \in db.addr[a][k].labels
           /\ db.addr[a][k].erc = bytecode
           /\ db.addr[a][k].bytecode = bytecode)

\* set_Contract replacing the labels of the node instead of adding one.
set_ContractOnly(db, a, bytecode) ==
  Ok([db EXCEPT !.addr[a] =
        [ k \in DOMAIN @ |->
            [ @[k] EXCEPT !.labels = {"Contract"}, !.erc = bytecode ] ]])

set_Contract(db, a, bytecode) ==
  Ok([db EXCEPT !.addr[a] =
        [ k \in DOMAIN @ |->
            [ @[k] EXCEPT !.labels = @ \cup {"Contract"}, !.erc = bytecode ] ]])

\* insert_Address_Contract with `else` in place of `elif result[0]['c'] == None`.
ContractPlanAlways(rows) ==
  IF Len(rows) = 0 THEN "write_Contract" ELSE "set_Contract"

\* Which write each operation issues after its read ("none": no write).
ContractPlan(rows) ==
  IF Len(rows) = 0 THEN "write_Contract"
  ELSE IF rows[1]["c"] = << >> THEN "set_Contract"
  ELSE "none"

EOAPlan(rows) ==
  IF Len(rows) = 0 THEN "write_EOA"
  ELSE IF Get(rows[1], "eoa") = << >> THEN "set_EOA"
  ELSE "none"

UnknownPlan(rows) ==
  IF Len(rows) = 0 THEN "insert_Address_EOA" ELSE "none"

ReadPlan(op, db, a) ==
  CASE op = "EOA"      -> EOAPlan(try_get_EOA(db, a))
    [] op = "Contract" -> ContractPlan(try_get_Contract(db, a))
    [] OTHER           -> UnknownPlan(try_get_Addr(db, a))

ApplyWrite(plan, db, a, bytecode) ==
  CASE plan = "write_EOA"      -> write_EOA(db, a)
    [] plan = "set_EOA"        -> set_EOA(db, a)
    [] plan = "write_Contract" -> write_Contract(db, a, bytecode)
    [] plan = "set_Contract"   -> set_Contract(db, a, bytecode)
    [] OTHER                   -> Ok(db)

\* The three operations run alone, without a failure of the store or of the
\* RPC call: the read, then the write the read asks for.
insert_Address_EOA(db, a) ==
  ApplyWrite(EOAPlan(try_get_EOA(db, a)), db, a, None).db

insert_Address_Contract(db, a, bytecode) ==
  ApplyWrite(ContractPlan(try_get_Contract(db, a)), db, a, bytecode).db

insert_Address_Unknown(db, a) ==
  IF UnknownPlan(try_get_Addr(db, a)) = "insert_Address_EOA"
    THEN insert_Address_EOA(db, a)
    ELSE db

Ensure(op, db, a, bytecode) ==
  CASE op = "EOA"      -> insert_Address_EOA(db, a)
    [] op = "Contract" -> insert_Address_Contract(db, a, bytecode)
    [] OTHER           -> insert_Address_Unknown(db, a)

\* ------------------------------------------------------------ graph writes
NodeCount(db, a) == Len(db.addr[a])

\* parse_block_header: the Block node, its BLOCK_REWARD edge and one
\* UNCLE_REWARD edge per uncle, in one store transaction.
RECURSIVE UncleEdges(_, _, _)
UncleEdges(db, n, uncles) ==
  IF uncles = << >> THEN Ok(db)
  ELSE LET c == db.block[n] * NodeCount(db, Head(uncles).miner)
       IN IF c # 1 THEN Raise("AssertionError", db)
          ELSE UncleEdges([db EXCEPT !.uncle[n] = @ + c], n, Tail(uncles))

parse_block_header(db, block) ==
  LET n == block.number IN
  IF CreateRefused("Block", db.block[n]) THEN Raise("ClientError", db)
  ELSE LET d1 == [db EXCEPT !.block[n] = @ + 1]
           c  == d1.block[n] * NodeCount(d1, block.miner)
       IN IF c # 1 THEN Raise("AssertionError", db)
          ELSE LET r == UncleEdges([d1 EXCEPT !.reward[n] = @ + c], n, block.uncle_blocks)
               IN IF r.st = "ok" THEN r ELSE Raise(r.st, db)

\* insert_TokenTransfer without its last query (CALL_TOKEN_TRANSFER).
insert_TokenTransferNoCall(db, transfer) ==
  LET k == <<transfer.transaction_hash, transfer.log_index>> IN
  IF CreateRefused("TokenTransfer", db.tf[k]) THEN Raise("ClientError", db)
  ELSE LET d1 == [db EXCEPT !.tf[k] = @ + 1]
           c1 == d1.tf[k] * NodeCount(d1, transfer.from_address)
                          * NodeCount(d1, transfer.to_address)
       IN IF c1 # 1 THEN Raise("AssertionError", db)
          ELSE Ok([d1 EXCEPT !.tfsend[k] = @ + c1, !.tfto[k] = @ + c1])

\* insert_TokenTransfer: the node, SEND_TOKEN and TOKEN_TO, CALL_TOKEN_TRANSFER.
insert_TokenTransfer(db, transfer) ==
  LET k == <<transfer.transaction_hash, transfer.log_index>> IN
  IF CreateRefused("TokenTransfer", db.tf[k]) THEN Raise("ClientError", db)
  ELSE LET d1 == [db EXCEPT !.tf[k] = @ + 1]
           c1 == d1.tf[k] * NodeCount(d1, transfer.from_address)
                          * NodeCount(d1, transfer.to_address)
           c2 == d1.tf[k] * d1.tx[transfer.transaction_hash]
       IN IF c1 # 1 \/ c2 # 1 THEN Raise("AssertionError", db)
          ELSE Ok([d1 EXCEPT !.tfsend[k] = @ + c1, !.tfto[k] = @ + c1,
                             !.tfcall[k] = @ + c2])

RECURSIVE InsertTransfers(_, _)
InsertTransfers(db, tfs) ==
  IF tfs = << >> THEN Ok(db)
  ELSE LET r == insert_TokenTransfer(db, Head(tfs))
       IN IF r.st = "ok" THEN InsertTransfers(r.db, Tail(tfs)) ELSE r

\* insert_block_conatins_tx: one more CONTAINS edge per (Block, Transaction) match.
insert_block_conatins_tx(db, n, h) ==
  LET c == db.block[n] * db.tx[h]
  IN IF c # 1 THEN Raise("AssertionError", db)
     ELSE Ok([db EXCEPT !.contains[h] = @ + c])

\* parse_block_tx: the Transaction node, its SEND/TO (or SEND and
\* CALL_CONTRACT_CREATION, whose target pattern is unbound and so a new node),
\* its transfers and the CONTAINS edge, in one store transaction.
parse_block_tx(db, block, i) ==
  LET tx == block.transactions[i]
      h  == tx.hash
  IN
  IF CreateRefused("Transaction", db.tx[h]) THEN Raise("ClientError", db)
  ELSE LET d1 == [db EXCEPT !.tx[h] = @ + 1]
           c  == IF tx.to # None
                   THEN d1.tx[h] * NodeCount(d1, tx.from) * NodeCount(d1, tx.to)
                   ELSE d1.tx[h] * NodeCount(d1, tx.from)
       IN IF c # 1 THEN Raise("AssertionError", db)
          ELSE LET d2 == IF tx.to # None
                           THEN [d1 EXCEPT !.txrel[h] = @ + c]
                           ELSE [d1 EXCEPT !.txrel[h] = @ + c, !.anon = @ + c]
                   r  == InsertTransfers(d2, block.transfers[i])
               IN IF r.st # "ok" THEN Raise(r.st, db)
                  ELSE LET e == insert_block_conatins_tx(r.db, block.number, h)
                       IN IF e.st = "ok" THEN e ELSE Raise(e.st, db)

\* get_local_Transaction returning the node unless exactly one row.
get_local_TransactionInverted(db, h) == db.tx[h] # 1

\* get_local_Block / get_local_Transaction: the node, or None unless exactly one row.
get_local_Block(db, n) == db.block[n] = 1
get_local_Transaction(db, h) == db.tx[h] = 1

\* get_local_Transfer: the rows hold the key "tf"; the function returns
\* results[0]['tx'], a KeyError when the one row exists.
get_local_Transfer(db, k) ==
  LET results == [ r \in 1..db.tf[k] |-> [ tf |-> k ] ]
  IN IF Len(results) # 1 THEN "None"
     ELSE IF "tx" \in DOMAIN results[1] THEN "found" ELSE "KeyError"

\* get_local_block_height: max(b.number), or -1 on an empty store.
get_local_block_height(db) ==
  IF \A n \in Numbers : db.block[n] = 0 THEN -1
  ELSE CHOOSE n \in Numbers : db.block[n] > 0 /\ \A m \in Numbers : db.block[m] > 0 => m <= n

\* ------------------------------------------------------ persisted stores
\* A store as the sequential, failure-free run of sync_task leaves it.  Each
\* step is applied to the store the step before it has produced
\* (OnStore evaluates that store first).
OnStore(d, next) == IF d.anon >= 0 THEN next ELSE d

RECURSIVE EnsureAll(_, _, _)
EnsureAll(db, ens, bytecode) ==
  IF ens = << >> THEN db
  ELSE LET d == Ensure(Head(ens).op, db, Head(ens).addr, bytecode)
       IN OnStore(d, EnsureAll(d, Tail(ens), bytecode))

RECURSIVE WriteTxs(_, _, _)
WriteTxs(db, block, i) ==
  IF i > Len(block.transactions) THEN db
  ELSE LET d == parse_block_tx(db, block, i).db
       IN OnStore(d, WriteTxs(d, block, i + 1))

HeaderOnly(db, n, bytecode) ==
  LET block == EnhancedBlock(n)
      d == EnsureAll(db, ensure_block_Addresses(block), bytecode)
  IN OnStore(d, parse_block_header(d, block).db)

PersistBlock(db, n, bytecode) ==
  LET d == HeaderOnly(db, n, bytecode)
  IN OnStore(d, WriteTxs(d, EnhancedBlock(n), 1))

\* A block as a finished task leaves it: the Block with its reward edges,
\* every transaction with its edges and transfers, every address registered.
AddressEnsured(db, e) ==
  /\ Len(db.addr[e.addr]) = 1
  /\ e.op # "Unknown" => e.op \in db.addr[e.addr][1].labels

BlockPersisted(db, n) ==
  LET block == EnhancedBlock(n) IN
  /\ db.block[n] = 1 /\ db.reward[n] = 1 /\ db.uncle[n] = Len(block.uncle_blocks)
  /\ \A i \in DOMAIN block.transactions :
       LET h == block.transactions[i].hash IN
       /\ db.tx[h] = 1 /\ db.txrel[h] = 1 /\ db.contains[h] >= 1
       /\ \A j \in DOMAIN block.transfers[i] :
            LET k == <<h, block.transfers[i][j].log_index>> IN
            db.tf[k] = 1 /\ db.tfsend[k] = 1 /\ db.tfto[k] = 1 /\ db.tfcall[k] = 1
  /\ \A x \in DOMAIN ensure_block_Addresses(block) :
       AddressEnsured(db, ensure_block_Addresses(block)[x])

RECURSIVE PersistRange(_, _, _)
PersistRange(db, lo, hi) ==
  IF lo > hi THEN db
  ELSE LET d == PersistBlock(db, lo, "erc20")
       IN OnStore(d, PersistRange(d, lo + 1, hi))

RECURSIVE HeadersRange(_, _, _)
HeadersRange(db, lo, hi) ==
  IF lo > hi THEN db
  ELSE LET d == HeaderOnly(db, lo, "erc20")
       IN OnStore(d, HeadersRange(d, lo + 1, hi))

\* A store whose transactions were persisted without their token transfers:
\* the state the transfer check of check_task (lines 539-543) looks for.
WithoutTransfers(db) ==
  [ db EXCEPT !.tf     = [k \in TransferKeys |-> 0],
              !.tfsend = [k \in TransferKeys |-> 0],
              !.tfto   = [k \in TransferKeys |-> 0],
              !.tfcall = [k \in TransferKeys |-> 0] ]

\* The stores a run starts from.  The store is durable and shared: a run
\* finds what earlier runs, other writers or an import left in it.
\*   empty; every block persisted; every block with its header but without
\*   its transactions (a sync whose transaction writes failed); only the top
\*   block (the blocks below are missing); every block and transaction but
\*   no token transfer.
InitialStores ==
  { EmptyDb,
    PersistRange(EmptyDb, 0, MaxBlock),
    HeadersRange(EmptyDb, 0, MaxBlock),
    PersistBlock(EmptyDb, MaxBlock, "erc20"),
    WithoutTransfers(PersistRange(EmptyDb, 0, MaxBlock)) }

\* ------------------------------------------------------------------ state
VARIABLES
  db,       \* the graph store
  cfg,      \* the configuration: checker/syncer sections, worker counts, safe-height
  alive,    \* FALSE once os._exit has run
  main,     \* the main thread: its place in work_flow and its locals
  task,     \* per thread the block task it runs (0: main thread, 1..MaxCo: checker pool)
  txTask,   \* sync_task: the transaction writes submitted to tx_executor
  faults,   \* failures injected so far
  decoder,  \* the token transfer decoder: the log handed to it and its result
  hist      \* history: the last failure, creates issued without an existence
            \* check, what the current checker pass started from and wrote,
            \* and the heights the current loop has handed to block tasks
            \* (submitted) with the height the loop started from

vars == <<db, cfg, alive, main, task, txTask, faults, decoder, hist>>

Threads == 0..MaxCo
Workers == 1..MaxCo
TxSlots == 1..2

\* The decoder at rest: no log handed to it.
DecoderOff == [ pc |-> "off", log |-> [ data |-> << >> ], transfer |-> << >> ]

Idle == [ mode |-> "idle", number |-> 0, pc |-> "idle", i |-> 0, j |-> 0,
          plan |-> "none", nc |-> FALSE, chk |-> {} ]

NewTask(mode, n) == [ Idle EXCEPT !.mode = mode, !.number = n, !.pc = "fetch" ]

NoFault == [ kind |-> "none", pc |-> "none", mode |-> "none", op |-> "none" ]

\* The configurations: checker and syncer sections (present or not), the
\* checker's worker count "blocks" and "safe-height" (given as 0 or left to
\* its default), the syncer's worker count "txs".
Configs ==
  { [ checker |-> TRUE, syncer |-> TRUE, cco |-> c, sco |-> SafetyMargin, safe |-> "default" ] :
      c \in 1..MaxCo }
  \cup { [ checker |-> TRUE, syncer |-> sy, cco |-> 1, sco |-> SafetyMargin, safe |-> "zero" ] :
      sy \in BOOLEAN }
  \cup { [ checker |-> FALSE, syncer |-> TRUE, cco |-> 1, sco |-> s, safe |-> "default" ] :
      s \in {MaxCo, SafetyMargin} }

Init ==
  /\ db \in InitialStores
  /\ cfg \in Configs
  /\ alive = TRUE
  /\ main = [ pc |-> "work_flow", latest |-> 0, local_height |-> 0,
              start_height |-> 0, next_height |-> 0, number |-> 0, last |-> 0 ]
  /\ task = [ t \in Threads |-> Idle ]
  /\ txTask = [ i \in TxSlots |-> "none" ]
  /\ faults = 0
  /\ decoder = DecoderOff
  /\ hist = [ fault |-> NoFault, unchecked |-> {}, clean |-> FALSE, wrote |-> FALSE,
              from |-> 0, submitted |-> << >> ]

Running == alive /\ main.pc \notin {"crashed", "done"}

\* The remote head the RPC collaborator reports.
Latest == SafetyMargin + MaxBlock + 1

\* -------------------------------------------------------------- work_flow
\* work_flow, lines 587-601: read the remote head and the local height; run
\* the checker when configured and local_height > 0.
work_flow ==
  /\ Running /\ main.pc = "work_flow"
  /\ LET local == get_local_block_height(db)
         co == cfg.cco
         safe == IF cfg.safe = "zero" THEN 0
                 ELSE IF local > co THEN local - co ELSE 0
     IN IF cfg.checker /\ local > 0
          THEN /\ main' = [ main EXCEPT !.pc = "check_missing", !.latest = Latest,
                                        !.local_height = local, !.start_height = safe ]
               /\ hist' = [ hist EXCEPT
                    !.clean = \A n \in safe..(local - 1) : BlockPersisted(db, n),
                    !.wrote = FALSE, !.from = safe, !.submitted = << >> ]
          ELSE /\ main' = [ main EXCEPT !.pc = "syncer", !.latest = Latest,
                                        !.local_height = local ]
               /\ hist' = hist
  /\ UNCHANGED <<db, cfg, decoder, alive, task, txTask, faults>>

\* The batch end without the clipping at local_height.
next_height_unclipped(local_height, start_height, co) == start_height + co

\* check_missing, line 558: next_height = min(local_height, start_height + co).
next_height(local_height, start_height, co) ==
  IF local_height < start_height + co THEN local_height ELSE start_height + co

\* check_missing, lines 557-561: submit the next batch of at most co heights,
\* range(start_height, next_height).
check_missing ==
  /\ Running /\ main.pc = "check_missing"
  /\ IF main.start_height < main.local_height
       THEN LET next == next_height(main.local_height, main.start_height, cfg.cco)
            IN /\ main' = [ main EXCEPT !.pc = "wait", !.next_height = next ]
               /\ task' = [ t \in Threads |->
                              IF t \in 1..(next - main.start_height)
                                THEN NewTask("check", main.start_height + t - 1)
                                ELSE task[t] ]
               /\ hist' = [ hist EXCEPT !.submitted =
                              @ \o [ t \in 1..(next - main.start_height) |-> task'[t].number ] ]
       ELSE /\ main' = [ main EXCEPT !.pc = "syncer" ]
            /\ task' = task
            /\ hist' = hist
  /\ UNCHANGED <<db, cfg, decoder, alive, txTask, faults>>

\* wait() returning as soon as one task of the batch has finished
\* (return_when=FIRST_COMPLETED).
wait_first(T) == \E t \in T : task[t].pc \in {"done", "failed"}

\* concurrent.futures.wait(fs): returns when every future of fs has finished
\* or raised (return_when=ALL_COMPLETED).
wait(T) == \A t \in T : task[t].pc \in {"idle", "done", "failed"}

\* check_missing, lines 560-562: wait() on the batch; the results are not
\* looked at and the finished futures are dropped.
check_wait ==
  /\ Running /\ main.pc = "wait"
  /\ wait(Workers)
  /\ main' = [ main EXCEPT !.pc = "check_missing", !.start_height = main.next_height ]
  /\ task' = [ t \in Threads |->
                 IF task[t].pc \in {"done", "failed"} THEN Idle ELSE task[t] ]
  /\ UNCHANGED <<db, cfg, decoder, alive, txTask, faults, hist>>

\* work_flow, lines 603-612: sync mode when configured and the store trails
\* the head by more than the margin; the catch-up loop head.
syncer ==
  /\ Running /\ main.pc = "syncer"
  /\ IF cfg.syncer /\ main.local_height < main.latest - SafetyMargin
       THEN /\ main' = [ main EXCEPT !.pc = "catch_up" ]
            /\ hist' = [ hist EXCEPT !.from = main.local_height, !.submitted = << >> ]
       ELSE /\ main' = [ main EXCEPT !.pc = "done" ]
            /\ hist' = hist
  /\ UNCHANGED <<db, cfg, decoder, alive, task, txTask, faults>>

\* work_flow, lines 612-617: the catch-up loop.  The argument of submit is the
\* call sync_task(number, ...), so the main thread runs each sync_task itself,
\* one after the other, and local_height advances by blocks_co after them.
catch_up ==
  /\ Running /\ main.pc = "catch_up"
  /\ IF main.local_height + 1 < main.latest - cfg.sco
       THEN /\ main' = [ main EXCEPT !.pc = "sync_task",
                                     !.number = main.local_height + 1,
                                     !.last = main.local_height + cfg.sco ]
            /\ task' = [ task EXCEPT ![0] = NewTask("sync", main.local_height + 1) ]
            /\ hist' = [ hist EXCEPT !.submitted = Append(@, task'[0].number) ]
       ELSE /\ main' = [ main EXCEPT !.pc = "daily" ]
            /\ task' = task
            /\ hist' = hist
  /\ UNCHANGED <<db, cfg, decoder, alive, txTask, faults>>

\* The loop leaving a height out between two ranges.
advance_past(local_height, blocks_co) == local_height + blocks_co + 1

\* The loop counting the ranges instead of the blocks (local_height += 1).
advance_by_one(local_height, blocks_co) == local_height + 1

\* work_flow, line 617: local_height += blocks_co.
advance(local_height, blocks_co) == local_height + blocks_co

\* work_flow, lines 613-617: sync_task returned; the next number of the range,
\* or local_height += blocks_co after the last.
sync_next ==
  /\ Running /\ main.pc = "sync_task" /\ task[0].pc = "done"
  /\ IF main.number < main.last
       THEN /\ main' = [ main EXCEPT !.number = main.number + 1 ]
            /\ task' = [ task EXCEPT ![0] = NewTask("sync", main.number + 1) ]
            /\ hist' = [ hist EXCEPT !.submitted = Append(@, task'[0].number) ]
       ELSE /\ main' = [ main EXCEPT !.pc = "catch_up",
                                     !.local_height = advance(main.local_height, cfg.sco) ]
            /\ task' = [ task EXCEPT ![0] = Idle ]
            /\ hist' = hist
  /\ UNCHANGED <<db, cfg, decoder, alive, txTask, faults>>

\* work_flow, lines 620-630: the polling loop.  Each iteration reads the
\* head again (it may have grown by a block); `latest` is now the block
\* object (no .number), so range(local_height + 1, latest - 1000) raises a
\* TypeError in the first iteration and work_flow ends.  main.latest keeps
\* the number of the block that was read.
daily ==
  /\ Running /\ main.pc = "daily"
  /\ \E head \in {Latest, Latest + 1} :
       main' = [ main EXCEPT !.pc = "crashed", !.latest = head ]
  /\ UNCHANGED <<db, cfg, decoder, alive, task, txTask, faults, hist>>

\* ------------------------------------------------------------- block tasks
BlockOf(t) == EnhancedBlock(task[t].number)
EnsuresOf(t) == ensure_block_Addresses(BlockOf(t))
CurrentEnsure(t) == EnsuresOf(t)[task[t].i]

\* check_task writing the header without reading the Block first.
AfterEnsurePcNoRead(mode) == "parse_block_header"

\* check_task reads the Block before it writes (lines 507-511); sync_task
\* writes the header right after the addresses (lines 579-581).
AfterEnsurePc(mode) == IF mode = "check" THEN "get_local_Block" ELSE "parse_block_header"

\* ensure_block_Addresses returning after its first registration call.
NextEnsureFirstOnly(t) ==
  [ task[t] EXCEPT !.pc = AfterEnsurePc(task[t].mode), !.i = 1, !.plan = "none" ]

\* The next registration call of ensure_block_Addresses, or the step after it.
NextEnsure(t) ==
  IF task[t].i < Len(EnsuresOf(t))
    THEN [ task[t] EXCEPT !.pc = "ensure", !.i = @ + 1, !.plan = "none" ]
    ELSE [ task[t] EXCEPT !.pc = AfterEnsurePc(task[t].mode), !.i = 1, !.plan = "none" ]

\* An exception leaves the task.  In a pool thread the Future keeps it and
\* nobody reads it; in the main thread (sync_task) it ends work_flow.
Propagate(t) ==
  /\ task' = [ task EXCEPT ![t].pc = "failed" ]
  /\ main' = IF t = 0 THEN [ main EXCEPT !.pc = "crashed" ] ELSE main

\* An except clause that lets the exception go on instead of os._exit.
except_reraise(t) == alive' = alive /\ Propagate(t)

\* The except clause of the registration operations (lines 307-309, 337-339,
\* 357-359): the exception is logged and os._exit(0) ends the process.
except_exit(t) == alive' = FALSE /\ UNCHANGED <<main, task>>

Fault(kind, t, op) == [ kind |-> kind, pc |-> task[t].pc, mode |-> task[t].mode, op |-> op ]

Wrote(h, t) == IF task[t].mode = "check" THEN [ h EXCEPT !.wrote = TRUE ] ELSE h

\* The keys a write CREATEs that the task has not found absent before.
Created(h, mode, chk, keys) ==
  [ h EXCEPT !.unchecked = @ \cup { <<mode, k[1]>> : k \in keys \ chk } ]

TxKeys(block, i) ==
  { <<"Transaction", block.transactions[i].hash>> }
  \cup { <<"TokenTransfer", <<block.transactions[i].hash, block.transfers[i][j].log_index>> >> :
           j \in DOMAIN block.transfers[i] }

\* check_task 503-504 / sync_task 571-572: get_block and enhance_block.  The
\* chain is followed up to block MaxBlock: a task on a later block stays here.
fetch(t) ==
  /\ Running /\ task[t].pc = "fetch" /\ task[t].number \in Numbers
  /\ task' = [ task EXCEPT ![t].pc = "ensure", ![t].i = 1 ]
  /\ UNCHANGED <<db, cfg, decoder, alive, main, txTask, faults, hist>>

\* An RPC call of get_block / enhance_block raises.
fetch_raises(t) ==
  /\ Running /\ task[t].pc = "fetch" /\ task[t].number \in Numbers
  /\ faults < MaxFaults
  /\ faults' = faults + 1
  /\ hist' = [ hist EXCEPT !.fault = Fault("rpc", t, "fetch") ]
  /\ Propagate(t)
  /\ UNCHANGED <<db, cfg, decoder, alive, txTask>>

\* The read transaction of insert_Address_EOA / _Contract / _Unknown.
ensure_read(t) ==
  /\ Running /\ task[t].pc = "ensure"
  /\ LET e == CurrentEnsure(t)
         plan == ReadPlan(e.op, db, e.addr)
     IN task' = [ task EXCEPT ![t] =
                    IF plan = "none" THEN NextEnsure(t)
                    ELSE IF plan = "insert_Address_EOA"
                      THEN [ task[t] EXCEPT !.pc = "nested_read" ]
                    ELSE [ task[t] EXCEPT !.pc = "ensure_write", !.plan = plan ] ]
  /\ UNCHANGED <<db, cfg, decoder, alive, main, txTask, faults, hist>>

\* The read raises: it runs outside the try block, the exception propagates.
ensure_read_raises(t) ==
  /\ Running /\ task[t].pc = "ensure" /\ faults < MaxFaults
  /\ faults' = faults + 1
  /\ hist' = [ hist EXCEPT !.fault = Fault("store", t, CurrentEnsure(t).op) ]
  /\ Propagate(t)
  /\ UNCHANGED <<db, cfg, decoder, alive, txTask>>

\* insert_Address_Unknown 353-355: the address is absent, insert_Address_EOA
\* runs (inside the try block) and reads again.
nested_read(t) ==
  /\ Running /\ task[t].pc = "nested_read"
  /\ LET plan == EOAPlan(try_get_EOA(db, CurrentEnsure(t).addr))
     IN task' = [ task EXCEPT ![t] =
                    IF plan = "none" THEN NextEnsure(t)
                    ELSE [ task[t] EXCEPT !.pc = "ensure_write", !.plan = plan ] ]
  /\ UNCHANGED <<db, cfg, decoder, alive, main, txTask, faults, hist>>

\* insert_Address_Unknown 357-359: the nested read raises, os._exit.
nested_read_raises(t) ==
  /\ Running /\ task[t].pc = "nested_read" /\ faults < MaxFaults
  /\ faults' = faults + 1
  /\ hist' = [ hist EXCEPT !.fault = Fault("store", t, "Unknown") ]
  /\ except_exit(t)
  /\ UNCHANGED <<db, cfg, decoder, txTask>>

\* The write transaction the read asked for; a Contract write first fetches
\* the bytecode.  A refused MERGE (ClientError) is caught like any exception.
ensure_write(t) ==
  /\ Running /\ task[t].pc = "ensure_write"
  /\ \E code \in Bytecodes :
       LET r == ApplyWrite(task[t].plan, db, CurrentEnsure(t).addr, code)
       IN IF r.st = "ok"
            THEN /\ db' = r.db
                 /\ task' = [ task EXCEPT ![t] = NextEnsure(t) ]
                 /\ UNCHANGED <<alive, main>>
            ELSE /\ db' = db
                 /\ except_exit(t)
  /\ hist' = Wrote(hist, t)
  /\ UNCHANGED <<cfg, decoder, txTask, faults>>

\* The write (kind "store") or get_bytecode (kind "rpc") raises.
ensure_write_raises(t) ==
  /\ Running /\ task[t].pc = "ensure_write" /\ faults < MaxFaults
  /\ \E kind \in {"store", "rpc"} :
       /\ kind = "rpc" => task[t].plan \in {"write_Contract", "set_Contract"}
       /\ hist' = [ Wrote(hist, t) EXCEPT !.fault = Fault(kind, t, CurrentEnsure(t).op) ]
  /\ faults' = faults + 1
  /\ except_exit(t)
  /\ UNCHANGED <<db, cfg, decoder, txTask>>

\* --------------------------------------------------- check_task, persistence
TxCount(t) == Len(BlockOf(t).transactions)
TransfersOf(t) == BlockOf(t).transfers[task[t].i]

\* The loop over block.transactions: the read of transaction i, or the end.
NextTx(tk, n, pc) ==
  IF tk.i < Len(EnhancedBlock(n).transactions)
    THEN [ tk EXCEPT !.pc = pc, !.i = @ + 1, !.j = 1 ]
    ELSE [ tk EXCEPT !.pc = "done" ]

FirstTx(tk, n, pc) ==
  IF Len(EnhancedBlock(n).transactions) >= 1
    THEN [ tk EXCEPT !.pc = pc, !.i = 1, !.j = 1 ]
    ELSE [ tk EXCEPT !.pc = "done" ]

\* check_task 539-547: the loop over the transfers of transaction tk.i from
\* index j on; after it `if no_contains:` reads a name that is bound only
\* once a write of this task has set it (UnboundLocalError otherwise).
TransferLoop(tk, n, j) ==
  IF j <= Len(EnhancedBlock(n).transfers[tk.i])
    THEN [ tk EXCEPT !.pc = "get_local_Transfer", !.j = j ]
    ELSE IF tk.nc THEN [ tk EXCEPT !.pc = "insert_contains" ]
    ELSE [ tk EXCEPT !.pc = "failed" ]

\* check_task 508-511 and 523: the read of the Block.
read_block(t) ==
  /\ Running /\ task[t].pc = "get_local_Block"
  /\ task' = [ task EXCEPT ![t] =
       IF get_local_Block(db, task[t].number)
         THEN FirstTx(task[t], task[t].number, "present_tx")
         ELSE [ task[t] EXCEPT !.pc = "parse_block_header",
                               !.chk = @ \cup { <<"Block", task[t].number>> } ] ]
  /\ UNCHANGED <<db, cfg, decoder, alive, main, txTask, faults, hist>>

\* A read transaction of the persistence part raises.
read_raises(t) ==
  /\ Running /\ faults < MaxFaults
  /\ task[t].pc \in {"get_local_Block", "present_tx", "absent_tx", "get_local_Transfer"}
  /\ faults' = faults + 1
  /\ hist' = [ hist EXCEPT !.fault = Fault("store", t, "read") ]
  /\ Propagate(t)
  /\ UNCHANGED <<db, cfg, decoder, alive, txTask>>

\* The tasks sync_task submits to tx_executor, one per transaction (583-584).
SubmitTxs(n) ==
  [ i \in TxSlots |-> IF i <= Len(EnhancedBlock(n).transactions) THEN "pending" ELSE "none" ]

\* check_task 525 / sync_task 581: write_transaction(parse_block_header).
write_header(t) ==
  /\ Running /\ task[t].pc = "parse_block_header"
  /\ LET r == parse_block_header(db, BlockOf(t))
         n == task[t].number
     IN /\ db' = r.db
        /\ IF r.st # "ok" THEN Propagate(t) /\ txTask' = txTask
           ELSE IF task[t].mode = "check"
             THEN /\ task' = [ task EXCEPT ![t] = FirstTx(task[t], n, "absent_tx") ]
                  /\ UNCHANGED <<main, txTask>>
             ELSE /\ task' = [ task EXCEPT ![t].pc = "wait" ]
                  /\ txTask' = SubmitTxs(n)
                  /\ main' = main
        /\ hist' = Created(Wrote(hist, t), task[t].mode, task[t].chk, { <<"Block", n>> })
  /\ UNCHANGED <<cfg, decoder, alive, faults>>

\* A write transaction of the persistence part raises (kind "store"), or one
\* of its queries returns a count other than 1 (kind "assert"); the
\* transaction is rolled back.
write_raises(t) ==
  /\ Running /\ faults < MaxFaults
  /\ task[t].pc \in {"parse_block_header", "present_write", "present_contains",
                     "absent_write", "insert_TokenTransfer", "insert_contains"}
  /\ \E kind \in {"store", "assert"} :
       hist' = [ Wrote(hist, t) EXCEPT !.fault = Fault(kind, t, "write") ]
  /\ faults' = faults + 1
  /\ Propagate(t)
  /\ UNCHANGED <<db, cfg, decoder, alive, txTask>>

\* check_task 513-515: the block exists, read transaction i.
present_tx(t) ==
  /\ Running /\ task[t].pc = "present_tx"
  /\ LET h == BlockOf(t).transactions[task[t].i].hash
     IN task' = [ task EXCEPT ![t] =
          IF get_local_Transaction(db, h)
            THEN NextTx(task[t], task[t].number, "present_tx")
            ELSE [ task[t] EXCEPT !.pc = "present_write",
                                  !.chk = @ \cup { <<"Transaction", h>> } ] ]
  /\ UNCHANGED <<db, cfg, decoder, alive, main, txTask, faults, hist>>

\* check_task 518-519: write_transaction(parse_block_tx) for the missing one.
present_write(t) ==
  /\ Running /\ task[t].pc = "present_write"
  /\ LET r == parse_block_tx(db, BlockOf(t), task[t].i)
     IN /\ db' = r.db
        /\ IF r.st = "ok"
             THEN task' = [ task EXCEPT ![t].pc = "present_contains" ] /\ main' = main
             ELSE Propagate(t)
  /\ hist' = Created(Wrote(hist, t), task[t].mode, task[t].chk, TxKeys(BlockOf(t), task[t].i))
  /\ UNCHANGED <<cfg, decoder, alive, txTask, faults>>

\* check_task 520-521: write_transaction(insert_block_conatins_tx).
present_contains(t) ==
  /\ Running /\ task[t].pc = "present_contains"
  /\ LET r == insert_block_conatins_tx(db, task[t].number,
                                       BlockOf(t).transactions[task[t].i].hash)
     IN /\ db' = r.db
        /\ IF r.st = "ok"
             THEN task' = [ task EXCEPT ![t] = NextTx(task[t], task[t].number, "present_tx") ]
                  /\ main' = main
             ELSE Propagate(t)
  /\ hist' = Wrote(hist, t)
  /\ UNCHANGED <<cfg, decoder, alive, txTask, faults>>

\* check_task 528-530: the block was missing, read transaction i.
absent_tx(t) ==
  /\ Running /\ task[t].pc = "absent_tx"
  /\ LET h == BlockOf(t).transactions[task[t].i].hash
     IN task' = [ task EXCEPT ![t] =
          IF get_local_Transaction(db, h)
            THEN TransferLoop(task[t], task[t].number, 1)
            ELSE [ task[t] EXCEPT !.pc = "absent_write",
                                  !.chk = @ \cup { <<"Transaction", h>> } ] ]
  /\ UNCHANGED <<db, cfg, decoder, alive, main, txTask, faults, hist>>

\* check_task 533-535: write_transaction(parse_block_tx); no_contains = True.
absent_write(t) ==
  /\ Running /\ task[t].pc = "absent_write"
  /\ LET r == parse_block_tx(db, BlockOf(t), task[t].i)
     IN /\ db' = r.db
        /\ IF r.st = "ok"
             THEN task' = [ task EXCEPT ![t] =
                              TransferLoop([ task[t] EXCEPT !.nc = TRUE ], task[t].number, 1) ]
                  /\ main' = main
             ELSE Propagate(t)
  /\ hist' = Created(Wrote(hist, t), task[t].mode, task[t].chk, TxKeys(BlockOf(t), task[t].i))
  /\ UNCHANGED <<cfg, decoder, alive, txTask, faults>>

\* check_task 539-543: read transfer j (get_local_Transfer raises a KeyError
\* when the transfer exists); when it is missing, write it in a transaction
\* of its own and set no_contains.
check_transfer(t) ==
  /\ Running /\ task[t].pc \in {"get_local_Transfer", "insert_TokenTransfer"}
  /\ LET tf == TransfersOf(t)[task[t].j]
         k  == <<tf.transaction_hash, tf.log_index>>
     IN IF task[t].pc = "get_local_Transfer"
          THEN LET found == get_local_Transfer(db, k)
               IN /\ task' = [ task EXCEPT ![t] =
                       CASE found = "KeyError" -> [ task[t] EXCEPT !.pc = "failed" ]
                         [] found = "None" ->
                              [ task[t] EXCEPT !.pc = "insert_TokenTransfer",
                                               !.chk = @ \cup { <<"TokenTransfer", k>> } ]
                         [] OTHER -> TransferLoop(task[t], task[t].number, task[t].j + 1) ]
                  /\ UNCHANGED <<db, main, hist>>
          ELSE LET r == insert_TokenTransfer(db, tf)
               IN /\ db' = r.db
                  /\ IF r.st = "ok"
                       THEN task' = [ task EXCEPT ![t] =
                              TransferLoop([ task[t] EXCEPT !.nc = TRUE ],
                                           task[t].number, task[t].j + 1) ]
                            /\ main' = main
                       ELSE Propagate(t)
                  /\ hist' = Created(Wrote(hist, t), task[t].mode, task[t].chk,
                                     { <<"TokenTransfer", k>> })
  /\ UNCHANGED <<cfg, decoder, alive, txTask, faults>>

\* check_task 545-547: write_transaction(insert_block_conatins_tx).
insert_contains(t) ==
  /\ Running /\ task[t].pc = "insert_contains"
  /\ LET r == insert_block_conatins_tx(db, task[t].number,
                                       BlockOf(t).transactions[task[t].i].hash)
     IN /\ db' = r.db
        /\ IF r.st = "ok"
             THEN task' = [ task EXCEPT ![t] = NextTx(task[t], task[t].number, "absent_tx") ]
                  /\ main' = main
             ELSE Propagate(t)
  /\ hist' = Wrote(hist, t)
  /\ UNCHANGED <<cfg, decoder, alive, txTask, faults>>

\* ------------------------------------------------- sync_task, transactions
\* tx_executor runs the submitted writes on cfg.sco threads, in queue order.
MayRun(i) ==
  /\ txTask[i] = "pending"
  /\ Cardinality({ j \in TxSlots : j < i /\ txTask[j] = "pending" }) < cfg.sco

\* threadsafe_parse_block_tx: write_transaction(parse_block_tx) in a pool
\* thread; an exception stays in the Future.
sync_tx(i) ==
  /\ Running /\ task[0].pc = "wait" /\ MayRun(i)
  /\ LET r == parse_block_tx(db, BlockOf(0), i)
     IN /\ db' = r.db
        /\ txTask' = [ txTask EXCEPT ![i] = IF r.st = "ok" THEN "done" ELSE "failed" ]
  /\ hist' = Created(hist, "sync", {}, TxKeys(BlockOf(0), i))
  /\ UNCHANGED <<cfg, decoder, alive, main, task, faults>>

\* The write raises, or a query of it returns a count other than 1.
sync_tx_raises(i) ==
  /\ Running /\ task[0].pc = "wait" /\ MayRun(i) /\ faults < MaxFaults
  /\ \E kind \in {"store", "assert"} :
       hist' = [ hist EXCEPT !.fault =
                   [ kind |-> kind, pc |-> "sync_tx", mode |-> "sync", op |-> "write" ] ]
  /\ faults' = faults + 1
  /\ txTask' = [ txTask EXCEPT ![i] = "failed" ]
  /\ UNCHANGED <<db, cfg, decoder, alive, main, task>>

\* wait() returning once the first submitted write has finished.
wait_txs_first(S) == \E i \in S : txTask[i] \in {"done", "failed"}

\* sync_task 583: wait() on the futures of the submitted writes.
wait_txs(S) == \A i \in S : txTask[i] \in {"none", "done", "failed"}

\* sync_task 583-584: wait() returns when every transaction write has
\* finished or raised.
sync_wait ==
  /\ Running /\ task[0].pc = "wait"
  /\ wait_txs(TxSlots)
  /\ task' = [ task EXCEPT ![0].pc = "done" ]
  /\ txTask' = [ i \in TxSlots |-> "none" ]
  /\ UNCHANGED <<db, cfg, decoder, alive, main, faults, hist>>

\* ---------------------------------------------------------- specification
Next ==
  \/ work_flow \/ check_missing \/ check_wait \/ syncer \/ catch_up
  \/ sync_next \/ daily \/ sync_wait
  \/ \E t \in Threads :
       \/ fetch(t) \/ fetch_raises(t)
       \/ ensure_read(t) \/ ensure_read_raises(t)
       \/ nested_read(t) \/ nested_read_raises(t)
       \/ ensure_write(t) \/ ensure_write_raises(t)
       \/ read_block(t) \/ read_raises(t)
       \/ write_header(t) \/ write_raises(t)
       \/ present_tx(t) \/ present_write(t) \/ present_contains(t)
       \/ absent_tx(t) \/ absent_write(t) \/ check_transfer(t) \/ insert_contains(t)
  \/ \E i \in TxSlots : sync_tx(i) \/ sync_tx_raises(i)

Spec == Init /\ [][Next]_vars

\* ------------------------------------------------ the loops on their own
\* check_missing(local_height, co, safe_height) and the catch-up loop of
\* work_flow for the heights they can be run with: the store does not enter
\* the loops (they never look at what a task did), so a block task is one
\* step here and the heights need not lie in the followed chain prefix.
\*   checker: local_height and safe-height in 0..MaxHeight, co in 1..MaxCo;
\*   catch-up: the loop head with the head at Latest or one block later and
\*   the local height up to MaxCo + MaxHeight below it, or with
\*   blocks_co = SafetyMargin at the start of the chain.
LoopInit ==
  /\ db = EmptyDb
  /\ alive = TRUE
  /\ task = [ t \in Threads |-> Idle ]
  /\ txTask = [ i \in TxSlots |-> "none" ]
  /\ faults = 0
  /\ decoder = DecoderOff
  /\ \/ \E co \in 1..MaxCo, local \in 0..MaxHeight, safe \in 0..MaxHeight :
          /\ cfg = [ checker |-> TRUE, syncer |-> FALSE, cco |-> co,
                     sco |-> SafetyMargin, safe |-> "given" ]
          /\ main = [ pc |-> "check_missing", latest |-> Latest, local_height |-> local,
                      start_height |-> safe, next_height |-> 0, number |-> 0, last |-> 0 ]
          /\ hist = [ fault |-> NoFault, unchecked |-> {}, clean |-> FALSE, wrote |-> FALSE,
                      from |-> safe, submitted |-> << >> ]
     \/ \E co \in 1..MaxCo \cup {SafetyMargin}, head \in {Latest, Latest + 1} :
          \E local \in IF co = SafetyMargin THEN -1..MaxHeight
                        ELSE (head - MaxCo - MaxHeight)..(head - 1) :
            /\ cfg = [ checker |-> FALSE, syncer |-> TRUE, cco |-> 1,
                       sco |-> co, safe |-> "default" ]
            /\ main = [ pc |-> "catch_up", latest |-> head, local_height |-> local,
                        start_height |-> 0, next_height |-> 0, number |-> 0, last |-> 0 ]
            /\ hist = [ fault |-> NoFault, unchecked |-> {}, clean |-> FALSE, wrote |-> FALSE,
                        from |-> local, submitted |-> << >> ]

\* check_task / sync_task as one step: the task runs to its end.
task_returns(t) ==
  /\ Running /\ task[t].pc = "fetch"
  /\ task' = [ task EXCEPT ![t].pc = "done" ]
  /\ UNCHANGED <<db, cfg, decoder, alive, main, txTask, faults, hist>>

LoopNext ==
  \/ check_missing \/ check_wait \/ catch_up \/ sync_next
  \/ \E t \in Threads : task_returns(t)

LoopSpec == LoopInit /\ [][LoopNext]_vars

\* --------------------------------------------- the decoder on its own
\* The logs handed to extract_transfer_from_log (by enhance_block, one call
\* per log of every receipt).  The RPC collaborator gives topics as str or as
\* HexBytes and the payload as a "0x" text.
Zeros(n) == [ i \in 1..n |-> "0" ]
Lower(string) == [ i \in DOMAIN string |-> LowerChar(string[i]) ]

\* Another event's signature (Approval): not the Transfer topic.
OtherTopic == << "0", "x", "8", "c", "5", "b" >> \o Zeros(WordLen - 4)
\* A 32-byte address word with non-zero high bytes and mixed-case digits.
LongWord ==
  << "0", "x", "f", "F" >> \o Zeros(WordLen - 6) \o << "A", "b", "C", "1" >>
\* Words shorter than an address: 38 hex characters, and 2.
ShortWord == << "0", "x" >> \o Zeros(AddrLen - 6) \o << "A", "b", "C", "1" >>
TinyWord == << "0", "x", "A", "b" >>
\* The payload word of the value 500.
ValueWord == << "0", "x" >> \o Zeros(WordLen - 3) \o << "1", "F", "4" >>

FirstTopics ==
  { Str(TRANSFER_EVENT_TOPIC), HexBytes(TRANSFER_EVENT_TOPIC),
    Str(OtherTopic), HexBytes(OtherTopic) }
AddressTopics ==
  { Str(LongWord), HexBytes(Lower(LongWord)), Str(ShortWord), Str(TinyWord) }

TopicLists ==
  { << >> }
  \cup { << f >> : f \in FirstTopics }
  \cup { << f, a >> : f \in FirstTopics, a \in AddressTopics }
  \cup { << f, a, b >> : f \in FirstTopics, a \in AddressTopics, b \in AddressTopics }
  \cup { << f, a, b, Str(ValueWord) >> :
           f \in FirstTopics, a \in AddressTopics, b \in AddressTopics }

\* Payloads: none, "0x", one word, two words, a part of a word, a word that
\* is no hex number.
Payloads ==
  { << >>,
    << "0", "x" >>,
    ValueWord,
    ValueWord \o Zeros(WordLen - 2) \o << "2", "a" >>,
    << "0", "x", "1", "F", "4" >>,
    << "0", "x" >> \o Zeros(WordLen - 1) \o << "g" >> }

LogFields(data) ==
  [ data |-> data,
    address |-> << "0", "x", "D", "a", "C", "1", "7", "F" >>,
    transactionHash |-> HexBytes(<< "0", "x", "5", "c", "5", "0" >>),
    logIndex |-> 7,
    blockNumber |-> 46147 ]

WithTopics(fields, topics) ==
  [ k \in DOMAIN fields \cup {"topics"} |-> IF k = "topics" THEN topics ELSE fields[k] ]

Logs ==
  { LogFields(data) : data \in Payloads }
  \cup { WithTopics(LogFields(data), topics) : data \in Payloads, topics \in TopicLists }

DecoderInit ==
  /\ decoder \in { [ pc |-> "log", log |-> l, transfer |-> << >> ] : l \in Logs }
  /\ db = EmptyDb
  /\ cfg = CHOOSE c \in Configs : ~c.checker /\ c.sco = SafetyMargin
  /\ alive = TRUE
  /\ main = [ pc |-> "sync_task", latest |-> Latest, local_height |-> -1,
              start_height |-> 0, next_height |-> 0, number |-> 0, last |-> 0 ]
  /\ task = [ t \in Threads |-> IF t = 0 THEN NewTask("sync", 0) ELSE Idle ]
  /\ txTask = [ i \in TxSlots |-> "none" ]
  /\ faults = 0
  /\ hist = [ fault |-> NoFault, unchecked |-> {}, clean |-> FALSE, wrote |-> FALSE,
              from |-> 0, submitted |-> << >> ]

\* enhance_block, lines 170-171: the call of the decoder on one log.
decode ==
  /\ decoder.pc = "log"
  /\ decoder' = [ decoder EXCEPT !.pc = "decoded",
                                 !.transfer = extract_transfer_from_log(decoder.log) ]
  /\ UNCHANGED <<db, cfg, alive, main, task, txTask, faults, hist>>

\* enhance_block, line 169: the loop goes on to the next log.
next_log ==
  /\ decoder.pc = "decoded"
  /\ \E l \in Logs : decoder' = [ pc |-> "log", log |-> l, transfer |-> << >> ]
  /\ UNCHANGED <<db, cfg, alive, main, task, txTask, faults, hist>>

DecoderNext == decode \/ next_log

DecoderSpec == DecoderInit /\ [][DecoderNext]_vars

\* ------------------------------------------------------------------ claims
Ops == {"EOA", "Contract", "Unknown"}
LabelsOf(d, a) == UNION { d.addr[a][k].labels : k \in DOMAIN d.addr[a] }
Stopped == ~alive \/ main.pc = "crashed"

\* C1: on every reachable store, for every address and each of the three
\* registration operations, running the operation twice in sequence (whatever
\* bytecode the RPC returns on each call) leaves the same store as running it
\* once, with one Address node for the address and the same labels.
C1_Idempotent ==
  \A a \in Addresses, op \in Ops, c1 \in Bytecodes, c2 \in Bytecodes :
    LET once  == Ensure(op, db, a, c1)
        twice == Ensure(op, once, a, c2)
    IN /\ twice = once
       /\ Len(once.addr[a]) = 1
       /\ LabelsOf(twice, a) = LabelsOf(once, a)

\* C1 witness: a checker task of a block that was persisted before (so its
\* addresses were registered then) has run insert_Address_Contract again,
\* and the address is one Address:Contract node.
C1_Witness ==
  \E t \in Workers :
    /\ task[t].mode = "check" /\ task[t].pc = "ensure" /\ task[t].i >= 2
    /\ db.block[task[t].number] = 1
    /\ LET e == EnsuresOf(t)[task[t].i - 1]
       IN /\ e.op = "Contract"
          /\ Len(db.addr[e.addr]) = 1
          /\ "Contract" \in db.addr[e.addr][1].labels

\* C2: no step removes a label from an Address node or removes the node: the
\* label set of every address only grows (so EOA, once set, stays).
C2_LabelsGrow ==
  [][ \A a \in Addresses :
        /\ Len(db.addr[a]) <= Len(db'.addr[a])
        /\ \A k \in DOMAIN db.addr[a] : db.addr[a][k].labels \subseteq db'.addr[a][k].labels ]_vars

\* C2 witness: an address that was registered as EOA has been labelled
\* Contract by insert_Address_Contract and still carries EOA.
C2_Witness ==
  /\ ~cfg.checker /\ main.pc = "sync_task"
  /\ \E a \in Addresses :
       Len(db.addr[a]) = 1 /\ db.addr[a][1].labels = {"EOA", "Contract"}

C4_NoWriteWhenPersisted ==
  (main.pc \in {"check_missing", "wait"} /\ hist.clean) => ~hist.wrote

\* C5 (as claimed): every Transaction node has exactly one incoming CONTAINS edge.
C5_OneContainsEdge ==
  \A h \in TxHashes : db.tx[h] >= 1 => db.contains[h] = 1

\* C6: every TokenTransfer node has exactly one SEND_TOKEN, one TOKEN_TO and
\* one CALL_TOKEN_TRANSFER edge (from its Transaction, which exists), and
\* there is no such edge without the node.
C6_TransferEdges ==
  \A k \in TransferKeys :
    IF db.tf[k] >= 1
      THEN db.tf[k] = 1 /\ db.tfsend[k] = 1 /\ db.tfto[k] = 1 /\ db.tfcall[k] = 1
           /\ db.tx[k[1]] = 1
      ELSE db.tfsend[k] = 0 /\ db.tfto[k] = 0 /\ db.tfcall[k] = 0

\* C6 witness: a sync run on the empty store has written the transfer of
\* block 1's token transaction.
C6_Witness ==
  /\ ~cfg.checker /\ main.pc = "sync_task"
  /\ db.tf[<< <<1, 1>>, 0 >>] = 1

\* C7 (as claimed): no CREATE of a Block, Transaction or TokenTransfer node is
\* issued for a key the task has not found absent before, in either mode.
C7_AlwaysChecked == hist.unchecked = {}

\* C7 (amended): in checker mode every CREATE of a Block or Transaction node
\* is preceded, in the same task, by a read that found the key absent.
C7_CheckerChecked ==
  \A u \in hist.unchecked : u[1] = "check" => u[2] = "TokenTransfer"

\* C7 witness: a checker task has created a Block and a Transaction after
\* finding each absent.
C7_Witness ==
  \E t \in Workers :
    /\ task[t].mode = "check" /\ task[t].pc = "done"
    /\ <<"Block", task[t].number>> \in task[t].chk
    /\ \E h \in TxHashes : <<"Transaction", h>> \in task[t].chk /\ db.tx[h] = 1

\* C8 (as claimed): once a creating query has returned a count other than 1
\* (the assert failed), the process has stopped.
C8_ViolationStops == hist.fault.kind = "assert" => Stopped

\* C9 (as claimed): a task that fails with an RPC or store error leaves the
\* process running: the other tasks and the loop go on.
C9_FailureIsolated == hist.fault.kind \in {"rpc", "store"} => ~Stopped

RunningCheck(t) ==
  task[t].mode = "check" /\ task[t].pc \notin {"idle", "done", "failed"}

\* C11: check_missing works in consecutive batches of at most co heights:
\* every running check task belongs to the current batch
\* [start_height, next_height), which holds at most co heights, one task per
\* height; the loop is back at its head (to submit the next batch, which
\* starts where this one ended) only when no check task is running; never
\* more than co check tasks run.
C11_BatchBarrier ==
  [][ /\ Cardinality({ t \in Workers : RunningCheck(t) })' <= cfg.cco
      /\ \A t \in Workers :
           RunningCheck(t)' =>
             /\ main'.pc = "wait"
             /\ main'.next_height - main'.start_height <= cfg.cco
             /\ main'.start_height <= task'[t].number
             /\ task'[t].number < main'.next_height
             /\ \A u \in Workers :
                  (RunningCheck(u)' /\ u # t) => task'[u].number # task'[t].number
      /\ (main.pc = "wait" /\ main'.pc = "check_missing")
           => main'.start_height = main.next_height ]_vars

\* C11 witness: the second batch of a pass runs, its first batch has finished.
C11_Witness ==
  /\ main.pc = "wait" /\ main.start_height >= 1
  /\ main.start_height > (IF cfg.safe = "zero" THEN 0 ELSE main.local_height - cfg.cco)
  /\ \E t \in Workers : RunningCheck(t) /\ task[t].pc = "get_local_Block"

\* The phases of a block task, by its place in check_task / sync_task.
Phase(pc) ==
  CASE pc \in {"idle", "fetch"} -> 0
    [] pc \in {"ensure", "nested_read", "ensure_write"} -> 1
    [] pc = "done" -> 3
    [] OTHER -> 2

\* What the store holds of block n: the Block with its reward edges, its
\* transactions with their edges, their transfers with their edges.
GraphOf(d, n) ==
  << d.block[n], d.reward[n], d.uncle[n],
     [ i \in TxSlots |->
         << d.tx[<<n, i>>], d.txrel[<<n, i>>], d.contains[<<n, i>>],
            d.tf[<< <<n, i>>, 0 >>], d.tfsend[<< <<n, i>>, 0 >>],
            d.tfto[<< <<n, i>>, 0 >>], d.tfcall[<< <<n, i>>, 0 >>] >> ] >>

\* C12: a task moves through its phases in order (fetch and enrichment, the
\* address registrations, the graph writes, done), one phase at a time; and
\* whenever a step writes a Block, Transaction, TokenTransfer or edge of
\* block n, a task of n is in its write phase and every address the enriched
\* block references (miner, uncle miners, from/to, created contract, transfer
\* from/to) is an Address node of the store with the label it was ensured as.
C12_PhaseOrder ==
  [][ /\ \A t \in Threads :
           (task'[t].number = task[t].number /\ task'[t].mode = task[t].mode
              /\ task'[t].pc \notin {"idle", "failed"})
             => Phase(task'[t].pc) - Phase(task[t].pc) \in {0, 1}
      /\ \A n \in Numbers :
           GraphOf(db', n) # GraphOf(db, n) =>
             /\ \E t \in Threads : task[t].number = n /\ Phase(task[t].pc) = 2
             /\ \A x \in DOMAIN ensure_block_Addresses(EnhancedBlock(n)) :
                  AddressEnsured(db, ensure_block_Addresses(EnhancedBlock(n))[x]) ]_vars

\* C12 witness: a sync task started on the empty store has registered the
\* addresses of block 1, written its header and its transaction with the
\* transfer.
C12_Witness ==
  /\ ~cfg.checker /\ task[0].mode = "sync" /\ task[0].number = 1 /\ task[0].pc = "done"
  /\ db.block[1] = 1 /\ db.tx[<<1, 1>>] = 1 /\ db.tf[<< <<1, 1>>, 0 >>] = 1
  /\ \A x \in DOMAIN ensure_block_Addresses(EnhancedBlock(1)) :
       AddressEnsured(db, ensure_block_Addresses(EnhancedBlock(1))[x])

CheckedPresent(t) ==
  /\ task[t].mode = "check" /\ task[t].pc = "done"
  /\ <<"Block", task[t].number>> \notin task[t].chk

\* The transfers of transaction i of the block are in the store with their edges.
TransfersStored(d, block, i) ==
  \A j \in DOMAIN block.transfers[i] :
    LET k == <<block.transactions[i].hash, block.transfers[i][j].log_index>>
    IN d.tf[k] = 1 /\ d.tfsend[k] = 1 /\ d.tfto[k] = 1 /\ d.tfcall[k] = 1

\* C14: when a check task has completed on a block that was in the store,
\* every transaction of the chain block is in the store with its SEND/TO
\* edges and a CONTAINS edge, and, when the task found a transaction missing,
\* with all its decoded transfers; no step changes a Transaction that is in
\* the store, its edges or its transfers, apart from the CONTAINS edge the
\* repairing task adds for a transaction it found missing.
C14_RepairsMissingTx ==
  [][ /\ \A t \in Workers :
           CheckedPresent(t)' =>
             LET block == EnhancedBlock(task'[t].number) IN
             \A i \in DOMAIN block.transactions :
               LET h == block.transactions[i].hash IN
               /\ db'.tx[h] = 1 /\ db'.txrel[h] = 1 /\ db'.contains[h] >= 1
               /\ (\E g \in TxHashes : <<"Transaction", g>> \in task'[t].chk)
                    => TransfersStored(db', block, i)
      /\ \A h \in TxHashes :
           db.tx[h] = 1 =>
             /\ db'.tx[h] = 1 /\ db'.txrel[h] = db.txrel[h]
             /\ db'.tf[<<h, 0>>] = db.tf[<<h, 0>>]
             /\ db'.tfcall[<<h, 0>>] = db.tfcall[<<h, 0>>]
             /\ db'.contains[h] # db.contains[h] =>
                  \E t \in Workers : <<"Transaction", h>> \in task[t].chk ]_vars

\* C14 witness: a check task has completed on block 1, which was in the
\* store without its transaction, and the transaction and its transfer are
\* now stored.
C14_Witness ==
  \E t \in Workers :
    /\ CheckedPresent(t) /\ task[t].number = 1
    /\ <<"Transaction", <<1, 1>> >> \in task[t].chk
    /\ db.tx[<<1, 1>>] = 1 /\ db.contains[<<1, 1>>] >= 1
    /\ TransfersStored(db, EnhancedBlock(1), 1)

\* C15 (as claimed): when a check task has completed on a block that was in
\* the store, every decoded transfer of the block's transactions is in the
\* store with its three edges.
C15_TransferRepaired ==
  \A t \in Workers :
    CheckedPresent(t) =>
      \A i \in DOMAIN EnhancedBlock(task[t].number).transactions :
        TransfersStored(db, EnhancedBlock(task[t].number), i)

\* The log the decoder has just decoded.
Decoded == decoder.pc = "decoded"
TopicsOf(l) == IF "topics" \in DOMAIN l THEN l.topics ELSE << >>

\* C16 (as claimed): a log whose first topic is not the Transfer signature,
\* given as str or as HexBytes, is decoded to no transfer.
C16_SignatureFilter ==
  (Decoded /\ Len(TopicsOf(decoder.log)) >= 1
     /\ Lower(TopicsOf(decoder.log)[1].value) # TRANSFER_EVENT_TOPIC)
    => decoder.transfer = << >>

\* The number of words of a payload: its characters after "0x" in pieces of
\* 64, a shorter last piece counted.
WordCount(data) ==
  IF Len(data) <= 2 THEN 0 ELSE (Len(data) - 2 + WordLen - 1) \div WordLen

ClaimedAddress(word) ==
  LET hex == Slice(word.value, 2, Len(word.value))
  IN << "0", "x" >>
     \o Lower(IF Len(hex) > AddrLen THEN Slice(hex, Len(hex) - AddrLen, Len(hex)) ELSE hex)

\* C18 (as claimed): a log with the topics (signature, from-word, to-word)
\* and a payload of one 32-byte word is decoded to the transfer with the
\* claimed from and to addresses, the integer value of the payload word and
\* the log's transaction hash, log index, block number and token address.
C18_DecodedTransfer ==
  (Decoded /\ Len(TopicsOf(decoder.log)) = 3
     /\ TopicsOf(decoder.log)[1].value = TRANSFER_EVENT_TOPIC
     /\ Len(decoder.log.data) = 2 + WordLen /\ IsHexNumber(decoder.log.data))
    => /\ Len(decoder.transfer) = 1
       /\ decoder.transfer[1].from_address = ClaimedAddress(decoder.log.topics[2])
       /\ decoder.transfer[1].to_address = ClaimedAddress(decoder.log.topics[3])
       /\ decoder.transfer[1].value = HexValue(Slice(decoder.log.data, 2, 2 + WordLen))
       /\ decoder.transfer[1].transaction_hash = decoder.log.transactionHash.value
       /\ decoder.transfer[1].log_index = decoder.log.logIndex
       /\ decoder.transfer[1].block_number = decoder.log.blockNumber
       /\ decoder.transfer[1].token_address = Lower(decoder.log.address)

\* The sum of the uncle rewards of block n and the sum of its fees.
RECURSIVE UncleRewards(_, _)
UncleRewards(block, k) ==
  IF k > Len(block.uncle_blocks) THEN 0
  ELSE get_uncle_reward(block.number, block.uncle_blocks[k].number)
       + UncleRewards(block, k + 1)

RECURSIVE Fees(_, _)
Fees(block, i) ==
  IF i > Len(block.transactions) THEN 0
  ELSE block.transaction_receipt[i].gasUsed * block.transactions[i].gasPrice
       + Fees(block, i + 1)

\* C19 (as claimed): the reward of every block a task has enriched is the
\* subsidy of its number plus the rewards of its uncles plus the fees
\* (gasUsed times gasPrice) of its transactions.
C19_BlockReward ==
  \A t \in Threads :
    task[t].pc \notin {"idle", "fetch", "failed"} =>
      BlockOf(t).reward = get_const_reward(task[t].number)
                          + UncleRewards(BlockOf(t), 1) + Fees(BlockOf(t), 1)

\* C20 (as claimed): the step that persists a transaction with an empty `to`
\* leaves it with one SEND / CALL_CONTRACT_CREATION path whose target is an
\* Address node that was in the store, and no step creates a node that is
\* not a Block, Transaction, TokenTransfer or Address.
C20_CreationEdge ==
  [][ /\ db'.anon = db.anon
      /\ \A n \in Numbers, i \in TxSlots :
           (i <= Len(get_block(n).transactions)
              /\ get_block(n).transactions[i].to = None
              /\ db.tx[<<n, i>>] = 0 /\ db'.tx[<<n, i>>] = 1)
             => db'.txrel[<<n, i>>] = 1 ]_vars

\* C21 (as claimed): insert_Address_EOA goes on to a write only when its
\* read found no Address node (the create) or a node without the EOA label
\* (the label write); on a node that carries EOA it issues no write.
C21_NoWriteOnEOA ==
  [][ \A t \in Threads :
        (task[t].pc \in {"ensure", "nested_read"} /\ task'[t].pc = "ensure_write"
           /\ task'[t].plan \in {"write_EOA", "set_EOA"})
          => LET a == CurrentEnsure(t).addr
             IN IF task'[t].plan = "write_EOA"
                  THEN Len(db.addr[a]) = 0
                  ELSE Len(db.addr[a]) >= 1 /\ "EOA" \notin LabelsOf(db, a) ]_vars

\* A check task that found its block missing from the store.
CheckedAbsent(t) ==
  /\ task[t].mode = "check"
  /\ <<"Block", task[t].number>> \in task[t].chk

\* C22 (as claimed): a check task that found its block missing, with no read
\* or write having failed, does not raise, and once it has completed the
\* store holds the Block with its reward and uncle edges and every
\* transaction of the block with a CONTAINS edge and its decoded transfers.
C22_AbsentBlockRepaired ==
  \A t \in Workers :
    (CheckedAbsent(t) /\ alive /\ hist.fault = NoFault) =>
      /\ task[t].pc # "failed"
      /\ task[t].pc = "done" =>
           LET block == EnhancedBlock(task[t].number) IN
           /\ db.block[task[t].number] = 1 /\ db.reward[task[t].number] = 1
           /\ db.uncle[task[t].number] = Len(block.uncle_blocks)
           /\ \A i \in DOMAIN block.transactions :
                /\ db.tx[block.transactions[i].hash] = 1
                /\ db.contains[block.transactions[i].hash] >= 1
                /\ TransfersStored(db, block, i)

\* C23 (as claimed): a polling iteration that reads a head with heights to
\* process (local height + 1 below head - SafetyMargin) goes on to sync_task
\* for the first of them, local height + 1.
C23_PollingProcesses ==
  [][ (main.pc = "daily" /\ main.local_height + 1 < main'.latest - SafetyMargin)
        => /\ main'.pc = "sync_task"
           /\ task'[0] = NewTask("sync", main.local_height + 1) ]_vars

\* C24: in sync mode a transaction write is submitted and runs only once the
\* header of its block is in the store; sync_task returns only when none of
\* its transaction writes is still pending; the loop's local height changes
\* only when the sync_task of the last number of the range has returned.
C24_SyncOrdering ==
  [][ /\ \A i \in TxSlots :
           txTask'[i] # txTask[i] /\ txTask'[i] # "none" =>
             /\ task'[0].mode = "sync" /\ task'[0].pc = "wait"
             /\ db'.block[task'[0].number] = 1
             /\ txTask[i] = "pending" => db.block[task[0].number] = 1
      /\ (task[0].mode = "sync" /\ task[0].pc # "done" /\ task'[0].pc = "done") =>
           /\ \A i \in TxSlots : txTask[i] # "pending"
           /\ db.block[task[0].number] = 1
      /\ (main.pc \in {"catch_up", "sync_task"}
            /\ main'.local_height # main.local_height) =>
           /\ task[0].pc = "done" /\ task[0].number = main.last
           /\ main.last = main.local_height + cfg.sco
           /\ \A n \in (main.local_height + 1)..main.last : db.block[n] = 1 ]_vars

\* C24 witness: the loop has advanced past a first range whose blocks have
\* transactions, all written by the tx pool.
C24_Witness ==
  /\ main.pc = "catch_up" /\ ~cfg.checker
  /\ cfg.sco = MaxCo /\ main.local_height = MaxCo - 1
  /\ \A n \in 0..main.local_height : BlockPersisted(db, n)
  /\ \A i \in TxSlots : txTask[i] = "none"

\* C25: check_missing hands to check tasks the heights safe_height,
\* safe_height + 1, ... in this order, each once and none at or above
\* local_height; when the loop is over every height of
\* [safe_height, local_height) has been handed out; each batch is a run of at
\* least one and at most co consecutive heights, one task per height.
C25_CheckerCoverage ==
  [][ cfg.checker =>
        LET done == hist.submitted
            all  == hist'.submitted
            k    == Len(all) - Len(done)
        IN /\ all = [ i \in 1..Len(all) |-> hist.from + i - 1 ]
           /\ \A i \in 1..Len(all) : all[i] < main.local_height
           /\ main'.pc = "syncer" =>
                Len(all) = IF main.local_height > hist.from
                             THEN main.local_height - hist.from ELSE 0
           /\ k <= cfg.cco
           /\ (main.pc = "check_missing" /\ main'.pc = "wait") =>
                /\ k >= 1
                /\ \A t \in Workers :
                     IF t <= k THEN /\ task'[t].pc = "fetch" /\ task'[t].mode = "check"
                                    /\ task'[t].number = all[Len(done) + t]
                     ELSE task'[t].pc = "idle" ]_vars

\* C25 witness: the loop is over after more than one batch, the last of them
\* shorter than co.
C25_Witness ==
  /\ cfg.checker /\ main.pc = "syncer"
  /\ Len(hist.submitted) > cfg.cco
  /\ Len(hist.submitted) % cfg.cco # 0
  /\ hist.from > 0

\* C28: the catch-up loop hands to sync_task the numbers L + 1, L + 2, ...
\* in this order, each once, where L is the local height it started from;
\* none of them is above the head; between two ranges the local height is
\* the last number processed; the loop ends exactly when
\* local_height + 1 >= head - blocks_co.
C28_CatchUpRange ==
  [][ ~cfg.checker =>
        LET all == hist'.submitted
        IN /\ all = [ i \in 1..Len(all) |-> hist.from + i ]
           /\ \A i \in 1..Len(all) : all[i] <= main.latest
           /\ main'.pc \in {"catch_up", "daily"} =>
                main'.local_height = hist.from + Len(all)
           /\ main.pc = "catch_up" =>
                (main'.pc = "daily" <=> main.local_height + 1 >= main.latest - cfg.sco)
           /\ main.pc = "sync_task" => main'.pc \in {"sync_task", "catch_up"} ]_vars

\* C28 witness: the loop has ended after more than one range of more than
\* one block.
C28_Witness ==
  /\ ~cfg.checker /\ main.pc = "daily"
  /\ cfg.sco > 1 /\ Len(hist.submitted) > cfg.sco

\* C26 (as claimed): with no read, write or RPC call having failed, the
\* registrations of the block tasks, in whatever order their reads and
\* writes interleave, raise no constraint violation and do not end the
\* process, and every address keeps at most one node.
C26_ConcurrentEnsureSafe ==
  hist.fault = NoFault =>
    /\ alive
    /\ \A a \in Addresses : Len(db.addr[a]) <= 1

\* C27 (as claimed): in sync mode, once the loop's local height has advanced
\* over a range, every block of the range is in the store with its reward
\* and uncle edges and each of its transactions with a CONTAINS edge and its
\* transfers.
C27_SyncedBelowHeight ==
  (~cfg.checker /\ main.pc = "catch_up" /\ main.local_height > hist.from) =>
    \A n \in (hist.from + 1)..main.local_height :
      n \in Numbers => BlockPersisted(db, n)

====
